---- MODULE Spec2Model ----
(***************************************************************************)
(* Model of dashboard/dashboard.py: a Streamlit script that loads a CSV of *)
(* order line items, cleans it in place, filters it by the years selected  *)
(* in the sidebar and derives KPIs and grouped summaries.  The script body *)
(* runs top to bottom on every interaction; one action per statement       *)
(* group.  Data frames live in a heap so that aliasing between `data` and  *)
(* `filtered_data` is something the model can get wrong.                   *)
(*                                                                         *)
(* Conventions: a nullable cell is <<>> when missing (NaN / NaT) and a     *)
(* non-empty tuple otherwise; a str cell is its sequence of characters;    *)
(* money is an integer amount; a quotient is a reduced fraction.           *)
(***************************************************************************)
EXTENDS Integers, Sequences, FiniteSets, TLC

VARIABLES csv, heap, data, filtered_data, multiselect, years, pc, error,
          total_revenue, num_orders, average_order_value, units_sold,
          top_categories_units, top_categories_revenue, top_states,
          monthly_trend

vars == <<csv, heap, data, filtered_data, multiselect, years, pc, error,
          total_revenue, num_orders, average_order_value, units_sold,
          top_categories_units, top_categories_revenue, top_states,
          monthly_trend>>

(* ---------------- bounds of the input family ---------------- *)
MaxRows == 12
\* longest file of the runs checked for progress
LiveRows == 3

(* ---------------- program constants ---------------- *)
ZfillWidth == 5
TopN == 10

NaN == <<>>
Min(a, b) == IF a < b THEN a ELSE b
Max(a, b) == IF a > b THEN a ELSE b

(* ---------------- str conversion and zfill ---------------- *)
DigitChars == <<"0", "1", "2", "3", "4", "5", "6", "7", "8", "9">>

RECURSIVE NatStr(_)
NatStr(n) == IF n < 10 THEN <<DigitChars[n + 1]>>
             ELSE NatStr(n \div 10) \o <<DigitChars[(n % 10) + 1]>>

IntStr(n) == IF n < 0 THEN <<"-">> \o NatStr(0 - n) ELSE NatStr(n)

\* dtype read_csv infers for a numeric column: a missing cell forces float64
ColumnDtype(col) == IF \E i \in DOMAIN col : col[i] = NaN THEN "float64" ELSE "int64"

CellStr_keepna(c, dtype) ==
    IF c = NaN THEN NaN
    ELSE IF dtype = "float64" THEN IntStr(c[1]) \o <<".", "0">>
    ELSE IntStr(c[1])

\* Series.astype(str), cell-wise: ints print as digits, integral floats with
\* a trailing ".0", a missing float as "nan"
CellStr(c, dtype) ==
    IF c = NaN THEN <<"n", "a", "n">>
    ELSE IF dtype = "float64" THEN IntStr(c[1]) \o <<".", "0">>
    ELSE IntStr(c[1])

AsTypeStr(col) ==
    LET dtype == ColumnDtype(col)
    IN  [i \in DOMAIN col |-> CellStr(col[i], dtype)]

Zeros(k) == [j \in 1..k |-> "0"]

zfill_right(s, width) ==
    IF Len(s) >= width THEN s ELSE s \o Zeros(width - Len(s))

\* str.zfill: never truncates; zeros go after a leading sign
zfill(s, width) ==
    IF Len(s) >= width THEN s
    ELSE IF Len(s) > 0 /\ s[1] \in {"+", "-"}
         THEN <<s[1]>> \o Zeros(width - Len(s)) \o Tail(s)
         ELSE Zeros(width - Len(s)) \o s

\* data.astype(str).str.zfill(5)
fix_prefix(col) ==
    LET strs == AsTypeStr(col)
    IN  [i \in DOMAIN col |-> zfill(strs[i], ZfillWidth)]

(* ---------------- datetime parsing and periods ---------------- *)
NaT == <<>>

\* pd.to_datetime(errors="coerce") on a year-month-day text: out-of-range
\* fields give NaT instead of raising
IsLeap(y) == (y % 4 = 0 /\ y % 100 # 0) \/ y % 400 = 0

DaysInMonth(y, m) ==
    IF m = 2 THEN (IF IsLeap(y) THEN 29 ELSE 28)
    ELSE IF m \in {4, 6, 9, 11} THEN 30 ELSE 31

to_datetime(raw) ==
    IF Len(raw) = 3 /\ raw[2] \in 1..12 /\ raw[3] \in 1..DaysInMonth(raw[1], raw[2])
    THEN raw ELSE NaT

to_period_M_offbyone(ts) == IF ts = NaT THEN NaT ELSE <<(ts[1] - 1970) * 12 + ts[2]>>

\* Series.dt.to_period("M"): monthly ordinal (months since 1970-01)
to_period_M(ts) == IF ts = NaT THEN NaT ELSE <<(ts[1] - 1970) * 12 + (ts[2] - 1)>>

\* PeriodSeries.dt.to_timestamp(): first day of the month
to_timestamp(p) == <<1970 + (p[1] \div 12), (p[1] % 12) + 1, 1>>

(* ---------------- the input file ---------------- *)
\* Column generators: the file has n rows and each column follows one of a
\* few patterns over the row number i, chosen independently in Init.
StatusPats == 1..3
OrderPats == 1..3
TimePats == 1..3
GroupPats == 1..3
RevPats == 1..3

StatusCycle == <<"shipped", "delivered", "canceled", "delivered">>
StatusOf(sp, i) ==
    IF sp = 1 THEN "delivered"
    ELSE IF sp = 2 THEN StatusCycle[(i % 4) + 1]
    ELSE "shipped"

OrderOf(op, i) == IF op = 1 THEN i ELSE IF op = 2 THEN (i + 1) \div 2 ELSE (i + 2) \div 3

ItemOf(op, i) ==
    IF op = 1 THEN <<1>>
    ELSE IF op = 2 THEN <<2 - (i % 2)>>
    ELSE IF i % 3 = 0 THEN NaN ELSE <<i % 3>>

ZipCycle == <<1234, 5, 12345, 0, 99999, 80>>
LongZipCycle == <<123456, 7, 1000000, 4321>>
ZipOf(op, i) ==
    IF op = 1 THEN <<ZipCycle[(i % 6) + 1]>>
    ELSE IF op = 2 THEN <<LongZipCycle[(i % 4) + 1]>>
    ELSE IF i % 4 = 2 THEN NaN ELSE <<ZipCycle[(i % 6) + 1]>>

TimeCycle == <<<<2018, 2, 3>>, <<2017, 11, 30>>, <<2018, 1, 31>>, <<2017, 12, 1>>>>
TimeOf(tp, i) ==
    IF tp = 1 THEN <<2017, 1, 15>>
    ELSE IF tp = 3 /\ i % 3 = 1 THEN <<TimeCycle[((i \div 2) % 4) + 1][1], 13, 40>>
    ELSE TimeCycle[((i \div 2) % 4) + 1]

CategoryOf(gp, i) == IF gp = 1 THEN i ELSE IF gp = 2 THEN (i % 3) + 1 ELSE 1
StateOf(gp, i) == IF gp = 1 THEN ((i * 5) % (MaxRows + 1)) + 1 ELSE IF gp = 2 THEN (i % 2) + 1 ELSE i

RevenueOf(rp, i) == IF rp = 1 THEN 100 ELSE IF rp = 2 THEN i * 10 ELSE (((i * 7) % 5) + 1) * 25

\* one line of main_data.csv as read_csv delivers it (index = row number)
RawRow(i, sp, op, tp, gp, rp) ==
    [index |-> i,
     customer_zip_code_prefix |-> ZipOf(op, i),
     seller_zip_code_prefix |-> ZipOf(op, i + 1),
     order_item_id |-> ItemOf(op, i),
     order_purchase_timestamp |-> TimeOf(tp, i),
     order_status |-> StatusOf(sp, i),
     order_id |-> OrderOf(op, i),
     order_purchase_year |-> TimeOf(tp, i)[1],
     total_revenue |-> RevenueOf(rp, i),
     product_category_name_english |-> CategoryOf(gp, i),
     customer_state |-> StateOf(gp, i)]

InputFiles ==
    {[i \in 1..n |-> RawRow(i, sp, op, tp, gp, rp)] :
        n \in 0..MaxRows, sp \in StatusPats, op \in OrderPats,
        tp \in TimePats, gp \in GroupPats, rp \in RevPats}

(* ---------------- frames ---------------- *)
Column(t, c) == [i \in DOMAIN t |-> t[i][c]]

\* heap of data frames; a name holds a frame id, 0 when unbound
FrameIds == 1..2
NoFrame == 0
EmptyHeap == [f \in FrameIds |-> <<>>]

\* frame pd.read_csv allocates at the top of a run
CsvFrame == 1

NewFrame_alias(src) == src

\* boolean indexing returns a copy: a frame other than the one indexed
NewFrame(src) == CHOOSE f \in FrameIds : f # src

(* ---------------- preprocess_data ---------------- *)
query_noop(t) == t

\* df.query("order_status == 'delivered'"): rows and their index labels kept in order
query_delivered(t) == SelectSeq(t, LAMBDA r : r.order_status = "delivered")

\* lines 13-25: each conversion reads and replaces one column, then the
\* rows are filtered
preprocess_table(t) ==
    LET customer == fix_prefix(Column(t, "customer_zip_code_prefix"))
        seller == fix_prefix(Column(t, "seller_zip_code_prefix"))
        item == AsTypeStr(Column(t, "order_item_id"))
        converted ==
            [i \in DOMAIN t |->
                [t[i] EXCEPT !.customer_zip_code_prefix = customer[i],
                             !.seller_zip_code_prefix = seller[i],
                             !.order_item_id = item[i],
                             !.order_purchase_timestamp = to_datetime(@)]]
    IN  query_delivered(converted)

\* every step of preprocess_data writes into the frame it was handed
preprocess_data(h, df) == [h EXCEPT ![df] = preprocess_table(h[df])]

(* ---------------- filter ---------------- *)
\* Series.unique(): the distinct values
unique(col) == {col[i] : i \in DOMAIN col}

isin_any(t, ys) == t

\* data[data["order_purchase_year"].isin(years)]: rows kept in order
isin_rows(t, ys) == SelectSeq(t, LAMBDA r : r.order_purchase_year \in ys)

(* ---------------- reductions ---------------- *)
RECURSIVE SumTo(_, _)
SumTo(col, k) == IF k = 0 THEN 0 ELSE SumTo(col, k - 1) + col[k]

\* Series.sum(): 0 for an empty column
sum(col) == SumTo(col, Len(col))

nunique(col) == Cardinality({col[i] : i \in DOMAIN col})

\* Series.count(): number of non-null cells
count(col) == Cardinality({i \in DOMAIN col : col[i] # NaN})

\* greatest common divisor of a >= 0 and b > 0
GCD(a, b) ==
    LET D == {g \in 1..b : a % g = 0 /\ b % g = 0}
    IN  CHOOSE g \in D : \A h \in D : h <= g

ZeroDivisionError == [num |-> 0, den |-> 0]

\* true division; the quotient is kept as a reduced fraction
truediv(a, b) ==
    IF b = 0 THEN ZeroDivisionError
    ELSE LET g == GCD(a, b) IN [num |-> a \div g, den |-> b \div g]

AverageOrderValue_unguarded(total, n) == truediv(total, n)

AverageOrderValue_floor(total, n) == IF n > 0 THEN truediv(total \div n, 1) ELSE truediv(0, 1)

\* total_revenue / num_orders if num_orders > 0 else 0
AverageOrderValue(total, n) == IF n > 0 THEN truediv(total, n) ELSE truediv(0, 1)

(* ---------------- grouped summaries ---------------- *)
\* the elements of S in ascending order
SortedSeq(S) ==
    [j \in 1..Cardinality(S) |->
        CHOOSE x \in S : Cardinality({y \in S : y < x}) = j - 1]

Group(t, key, k) == SelectSeq(t, LAMBDA r : r[key] = k)

\* groupby(key)[val].count().reset_index().rename(val -> out): one row per
\* key, in ascending key order
GroupCount(t, key, val, out) ==
    LET ks == SortedSeq(unique(Column(t, key)))
    IN  [j \in DOMAIN ks |->
            (key :> ks[j]) @@ (out :> count(Column(Group(t, key, ks[j]), val)))]

\* groupby(key)[val].sum().reset_index()
GroupSum(t, key, val) ==
    LET ks == SortedSeq(unique(Column(t, key)))
    IN  [j \in DOMAIN ks |->
            (key :> ks[j]) @@ (val :> sum(Column(Group(t, key, ks[j]), val)))]

\* position of row a after a stable descending sort by column `by`
RankDesc(s, by, a) ==
    1 + Cardinality({b \in DOMAIN s :
            s[b][by] > s[a][by] \/ (s[b][by] = s[a][by] /\ b < a)})

\* sort_values(by, ascending=False): largest first, equal measures keep
\* their incoming order
sort_values_desc(s, by) ==
    [j \in DOMAIN s |-> s[CHOOSE a \in DOMAIN s : RankDesc(s, by, a) = j]]

head_all(s, n) == s

\* DataFrame.head(n)
head(s, n) == SubSeq(s, 1, Min(n, Len(s)))

TopCategoriesUnits(t) ==
    head(sort_values_desc(
            GroupCount(t, "product_category_name_english", "order_item_id", "units_sold"),
            "units_sold"), TopN)

TopCategoriesRevenue(t) ==
    head(sort_values_desc(
            GroupSum(t, "product_category_name_english", "total_revenue"),
            "total_revenue"), TopN)

TopStates(t) ==
    head(sort_values_desc(GroupSum(t, "customer_state", "total_revenue"),
                          "total_revenue"), TopN)

(* ---------------- monthly trend ---------------- *)
\* filtered_data["year_month"] = ...dt.to_period("M"): adds the column
\* to the frame the name filtered_data refers to
AssignYearMonth(t) ==
    [i \in DOMAIN t |->
        t[i] @@ ("year_month" :> to_period_M(t[i].order_purchase_timestamp))]

\* groupby drops rows whose key is missing (dropna=True)
MonthKeys(t) == {t[i].year_month[1] : i \in {j \in DOMAIN t : t[j].year_month # NaT}}

\* groupby("year_month").agg(sum, nunique).reset_index(), then the period
\* column converted back to timestamps
MonthlyTrend(t) ==
    LET ks == SortedSeq(MonthKeys(t))
        G(k) == SelectSeq(t, LAMBDA r : r.year_month = <<k>>)
    IN  [j \in DOMAIN ks |->
            [year_month |-> to_timestamp(<<ks[j]>>),
             total_revenue |-> sum(Column(G(ks[j]), "total_revenue")),
             order_count |-> nunique(Column(G(ks[j]), "order_id"))]]

(* ---------------- sidebar ---------------- *)
multiselect_default(value, default) == default

\* st.multiselect returns the user's selection once there is one, the
\* default before
multiselect_value(value, default) == IF value = <<>> THEN default ELSE value[1]

(* ---------------- the script, one run per interaction ---------------- *)
ZeroFraction == truediv(0, 1)

Init ==
    /\ csv \in InputFiles
    /\ heap = EmptyHeap
    /\ data = NoFrame
    /\ filtered_data = NoFrame
    /\ multiselect = [shown |-> FALSE, options |-> {}, value |-> <<>>]
    /\ years = {}
    /\ pc = "load"
    /\ error = FALSE
    /\ total_revenue = 0
    /\ num_orders = 0
    /\ average_order_value = ZeroFraction
    /\ units_sold = 0
    /\ top_categories_units = <<>>
    /\ top_categories_revenue = <<>>
    /\ top_states = <<>>
    /\ monthly_trend = <<>>

kpis == <<total_revenue, num_orders, average_order_value, units_sold>>
charts == <<top_categories_units, top_categories_revenue, top_states, monthly_trend>>

\* line 6
Load ==
    /\ pc = "load"
    /\ data' = CsvFrame
    /\ heap' = [heap EXCEPT ![CsvFrame] = csv]
    /\ pc' = "preprocess"
    /\ UNCHANGED <<csv, filtered_data, multiselect, years, error, kpis, charts>>

\* line 28
Preprocess ==
    /\ pc = "preprocess"
    /\ heap' = preprocess_data(heap, data)
    /\ pc' = "sidebar"
    /\ UNCHANGED <<csv, data, filtered_data, multiselect, years, error, kpis, charts>>

\* lines 31-37
Sidebar ==
    /\ pc = "sidebar"
    /\ LET opts == unique(Column(heap[data], "order_purchase_year"))
       IN  /\ years' = multiselect_value(multiselect.value, opts)
           /\ multiselect' = [multiselect EXCEPT !.shown = TRUE, !.options = opts]
    /\ pc' = "filter"
    /\ UNCHANGED <<csv, heap, data, filtered_data, error, kpis, charts>>

\* line 40
Filter ==
    /\ pc = "filter"
    /\ LET f == NewFrame(data)
       IN  /\ filtered_data' = f
           /\ heap' = [heap EXCEPT ![f] = isin_rows(heap[data], years)]
    /\ pc' = "kpi"
    /\ UNCHANGED <<csv, data, multiselect, years, error, kpis, charts>>

\* lines 47-50; a ZeroDivisionError ends the run
KPIRow ==
    /\ pc = "kpi"
    /\ LET t == heap[filtered_data]
           total == sum(Column(t, "total_revenue"))
           n == nunique(Column(t, "order_id"))
           aov == AverageOrderValue(total, n)
       IN  /\ total_revenue' = total
           /\ num_orders' = n
           /\ IF aov = ZeroDivisionError
              THEN /\ error' = TRUE
                   /\ pc' = "failed"
                   /\ UNCHANGED <<average_order_value, units_sold>>
              ELSE /\ average_order_value' = aov
                   /\ units_sold' = count(Column(t, "order_item_id"))
                   /\ pc' = "tab_units"
                   /\ UNCHANGED error
    /\ UNCHANGED <<csv, heap, data, filtered_data, multiselect, years, charts>>

\* lines 69-76
TabUnits ==
    /\ pc = "tab_units"
    /\ top_categories_units' = TopCategoriesUnits(heap[filtered_data])
    /\ pc' = "tab_revenue"
    /\ UNCHANGED <<csv, heap, data, filtered_data, multiselect, years, error, kpis,
                   top_categories_revenue, top_states, monthly_trend>>

\* lines 91-97
TabRevenue ==
    /\ pc = "tab_revenue"
    /\ top_categories_revenue' = TopCategoriesRevenue(heap[filtered_data])
    /\ pc' = "states"
    /\ UNCHANGED <<csv, heap, data, filtered_data, multiselect, years, error, kpis,
                   top_categories_units, top_states, monthly_trend>>

\* lines 114-120
States ==
    /\ pc = "states"
    /\ top_states' = TopStates(heap[filtered_data])
    /\ pc' = "year_month"
    /\ UNCHANGED <<csv, heap, data, filtered_data, multiselect, years, error, kpis,
                   top_categories_units, top_categories_revenue, monthly_trend>>

\* lines 137-139
YearMonth ==
    /\ pc = "year_month"
    /\ heap' = [heap EXCEPT ![filtered_data] = AssignYearMonth(heap[filtered_data])]
    /\ pc' = "monthly"
    /\ UNCHANGED <<csv, data, filtered_data, multiselect, years, error, kpis, charts>>

\* lines 142-149
Monthly ==
    /\ pc = "monthly"
    /\ monthly_trend' = MonthlyTrend(heap[filtered_data])
    /\ pc' = "done"
    /\ UNCHANGED <<csv, heap, data, filtered_data, multiselect, years, error, kpis,
                   top_categories_units, top_categories_revenue, top_states>>

\* The user changes the year selection in the sidebar: the platform drops
\* the current run (finished or not) and runs the script again from the
\* top in a fresh namespace.
ChangeSelection ==
    /\ multiselect.shown
    /\ \E s \in SUBSET multiselect.options :
          /\ s # multiselect_value(multiselect.value, multiselect.options)
          /\ multiselect' = [multiselect EXCEPT !.value = <<s>>]
    /\ pc' = "load"
    /\ heap' = EmptyHeap
    /\ data' = NoFrame
    /\ filtered_data' = NoFrame
    /\ years' = {}
    /\ error' = FALSE
    /\ total_revenue' = 0
    /\ num_orders' = 0
    /\ average_order_value' = ZeroFraction
    /\ units_sold' = 0
    /\ top_categories_units' = <<>>
    /\ top_categories_revenue' = <<>>
    /\ top_states' = <<>>
    /\ monthly_trend' = <<>>
    /\ UNCHANGED csv

Next ==
    \/ Load
    \/ Preprocess
    \/ Sidebar
    \/ Filter
    \/ KPIRow
    \/ TabUnits
    \/ TabRevenue
    \/ States
    \/ YearMonth
    \/ Monthly
    \/ ChangeSelection

Spec == Init /\ [][Next]_vars

\* the script steps, which the platform runs to the end unless interrupted
Run ==
    \/ Load \/ Preprocess \/ Sidebar \/ Filter \/ KPIRow \/ TabUnits
    \/ TabRevenue \/ States \/ YearMonth \/ Monthly

LiveInit == Init /\ Len(csv) <= LiveRows

LiveSpec == LiveInit /\ [][Next]_vars /\ WF_vars(Run)

(***************************************************************************)
(* Properties                                                              *)
(***************************************************************************)
Stages == <<"load", "preprocess", "sidebar", "filter", "kpi", "tab_units",
            "tab_revenue", "states", "year_month", "monthly", "done">>

\* the step named p of the current run has been executed
Reached(p) ==
    \E i, j \in DOMAIN Stages : Stages[i] = p /\ Stages[j] = pc /\ j > i

Cleaned == heap[data]
View == heap[filtered_data]

Labels(t) == {t[i].index : i \in DOMAIN t}

RECURSIVE SumOver(_, _)
SumOver(t, I) ==
    IF I = {} THEN 0
    ELSE LET i == CHOOSE x \in I : TRUE
         IN  t[i].total_revenue + SumOver(t, I \ {i})

\* rows of the cleaned table whose year is selected
Selected == {i \in DOMAIN Cleaned : Cleaned[i].order_purchase_year \in years}

\* C1: after preprocess_data, every remaining row is "delivered", every
\* delivered input row is still there (once), and no other row is kept.
C1_OnlyDelivered ==
    Reached("preprocess") =>
        /\ \A j \in DOMAIN Cleaned : Cleaned[j].order_status = "delivered"
        /\ Labels(Cleaned) = {i \in DOMAIN csv : csv[i].order_status = "delivered"}
        /\ Len(Cleaned) = Cardinality(Labels(Cleaned))

C1_Witness ==
    /\ Reached("preprocess")
    /\ Cleaned # <<>>
    /\ Len(Cleaned) < Len(csv)

(* ---- C2 ---- *)
ZipColumns == {"customer_zip_code_prefix", "seller_zip_code_prefix"}

IsDigit(ch) == \E d \in 1..10 : DigitChars[d] = ch

DigitValue(ch) == (CHOOSE d \in 1..10 : DigitChars[d] = ch) - 1

RECURSIVE StrValue(_)
StrValue(z) ==
    IF z = <<>> THEN 0 ELSE 10 * StrValue(SubSeq(z, 1, Len(z) - 1)) + DigitValue(z[Len(z)])

RECURSIVE NumDigits(_)
NumDigits(v) == IF v < 10 THEN 1 ELSE 1 + NumDigits(v \div 10)

\* z is the numeric value of the raw cell c written in digits, zero-padded
PaddedNumeric(z, c) ==
    /\ c # NaN
    /\ \A k \in DOMAIN z : IsDigit(z[k])
    /\ StrValue(z) = c[1]

\* C2 as stated: every zip-prefix value (a cell of a column read as
\* integers) comes out exactly 5 characters long and is the zero-padded
\* numeric value, also when the value has more than 5 digits.
C2_AlwaysFiveChars ==
    Reached("preprocess") =>
        \A j \in DOMAIN Cleaned : \A c \in ZipColumns :
            ColumnDtype(Column(csv, c)) = "int64" =>
                /\ Len(Cleaned[j][c]) = 5
                /\ PaddedNumeric(Cleaned[j][c], csv[Cleaned[j].index][c])

\* C2 (amended): every cleaned zip prefix is the string form of the input
\* value left-padded with zeros to max(5, length of the string form)
\* characters; it is exactly 5 characters only when the string form has at
\* most 5 (an integer 0..99999), and a longer string form is kept as it is.
\* For an integer column the string form is the decimal digits of the value.
C2_PaddedToAtLeastFive ==
    Reached("preprocess") =>
        \A j \in DOMAIN Cleaned : \A c \in ZipColumns :
            LET raw == csv[Cleaned[j].index][c]
                dtype == ColumnDtype(Column(csv, c))
                str == CellStr(raw, dtype)
                z == Cleaned[j][c]
            IN  /\ Len(z) = Max(5, Len(str))
                /\ SubSeq(z, Len(z) - Len(str) + 1, Len(z)) = str
                /\ \A k \in 1..(Len(z) - Len(str)) : z[k] = "0"
                /\ dtype = "int64" =>
                      /\ PaddedNumeric(z, raw)
                      /\ Len(z) = Max(5, NumDigits(raw[1]))
                      /\ (raw[1] <= 99999 <=> Len(z) = 5)

C2_Witness ==
    /\ Reached("preprocess")
    /\ \E j \in DOMAIN Cleaned : \E c \in ZipColumns :
          LET raw == csv[Cleaned[j].index][c]
          IN  /\ ColumnDtype(Column(csv, c)) = "int64"
              /\ raw[1] > 0 /\ raw[1] < 1000
              /\ Len(Cleaned[j][c]) = 5
    /\ \E j \in DOMAIN Cleaned : \E c \in ZipColumns :
          /\ ColumnDtype(Column(csv, c)) = "int64"
          /\ csv[Cleaned[j].index][c][1] > 99999

\* C3: the filtered view holds exactly the cleaned rows whose year is
\* selected, each once, and the KPIs are computed from those rows only.
C3_FilterExact ==
    /\ Reached("filter") =>
          /\ Labels(View) = {Cleaned[i].index : i \in Selected}
          /\ Len(View) = Cardinality(Selected)
          /\ \A j \in DOMAIN View : View[j].order_purchase_year \in years
    /\ Reached("kpi") =>
          /\ total_revenue = SumOver(Cleaned, Selected)
          /\ num_orders = Cardinality({Cleaned[i].order_id : i \in Selected})
          /\ units_sold = Cardinality(Selected)

C3_Witness ==
    /\ pc = "done"
    /\ years = {2017}
    /\ \E i \in DOMAIN Cleaned : Cleaned[i].order_purchase_year = 2018
    /\ View # <<>>

\* C4: with N the revenue of the view and M > 0 its distinct orders,
\* average_order_value is the exact quotient N / M.
C4_ExactQuotient ==
    Reached("kpi") =>
        LET N == SumOver(View, DOMAIN View)
            M == Cardinality({View[j].order_id : j \in DOMAIN View})
        IN  M > 0 =>
              /\ average_order_value.den > 0
              /\ average_order_value.num * M = N * average_order_value.den

C4_Witness ==
    /\ Reached("kpi")
    /\ num_orders > 1
    /\ average_order_value.den > 1

\* state part of C5: nothing raised, empty view, zero KPIs, empty datasets
C5_EmptyState ==
    (years = {} /\ pc \notin {"load", "preprocess", "sidebar"}) =>
        /\ ~error
        /\ pc # "failed"
        /\ Reached("filter") => View = <<>>
        /\ Reached("kpi") =>
              /\ total_revenue = 0
              /\ num_orders = 0
              /\ average_order_value = [num |-> 0, den |-> 1]
              /\ units_sold = 0
        /\ Reached("tab_units") => top_categories_units = <<>>
        /\ Reached("tab_revenue") => top_categories_revenue = <<>>
        /\ Reached("states") => top_states = <<>>
        /\ Reached("monthly") => monthly_trend = <<>>

\* C5: with an empty year selection the run raises no error and runs to
\* the end (unless the selection changes first), the view is empty, the
\* four KPIs are 0 and the chart datasets are empty.
C5_EmptySelection ==
    /\ []C5_EmptyState
    /\ (years = {} /\ pc = "filter") ~> (pc = "done" \/ pc = "load")

C5_Witness ==
    /\ pc = "done"
    /\ years = {}
    /\ multiselect.value = <<{}>>
    /\ Cleaned # <<>>

(* ---- C6 ---- *)
Keys(t, key) == {t[i][key] : i \in DOMAIN t}

RowsOf(t, key, k) == {i \in DOMAIN t : t[i][key] = k}

UnitsOf(t, key, k) == Cardinality(RowsOf(t, key, k))

RevenueOfGroup(t, key, k) == SumOver(t, RowsOf(t, key, k))

\* res is a top-10 of the groups of the view by measure M
IsTop(res, key, by, M(_, _, _)) ==
    LET groups == Keys(View, key)
        shown == {res[j][key] : j \in DOMAIN res}
    IN  /\ Len(res) <= 10
        /\ Len(res) = Min(10, Cardinality(groups))
        /\ Cardinality(shown) = Len(res)
        /\ shown \subseteq groups
        /\ \A j \in DOMAIN res : res[j][by] = M(View, key, res[j][key])
        /\ \A j \in 1..(Len(res) - 1) : res[j][by] >= res[j + 1][by]
        /\ \A k \in groups \ shown : \A j \in DOMAIN res :
              M(View, key, k) <= res[j][by]

\* C6: each top-10 result has min(10, #groups) rows, is sorted descending
\* by its measure and leaves out no group with a strictly larger measure.
C6_TopTen ==
    /\ Reached("tab_units") =>
          IsTop(top_categories_units, "product_category_name_english",
                "units_sold", UnitsOf)
    /\ Reached("tab_revenue") =>
          IsTop(top_categories_revenue, "product_category_name_english",
                "total_revenue", RevenueOfGroup)
    /\ Reached("states") =>
          IsTop(top_states, "customer_state", "total_revenue", RevenueOfGroup)

C6_Witness ==
    /\ pc = "done"
    /\ Cardinality(Keys(View, "product_category_name_english")) > 10
    /\ Cardinality(Keys(View, "customer_state")) > 10
    /\ Len(top_states) = 10
    /\ top_states[1].total_revenue > top_states[10].total_revenue
    /\ top_categories_revenue[1].total_revenue > top_categories_revenue[10].total_revenue

(* ---- C7 ---- *)
MonthOf(ts) == <<ts[1], ts[2], 1>>

Dated(t) == {i \in DOMAIN t : t[i].order_purchase_timestamp # NaT}

InMonth(t, m) == {i \in Dated(t) : MonthOf(t[i].order_purchase_timestamp) = m}

Before(a, b) == a[1] < b[1] \/ (a[1] = b[1] /\ a[2] < b[2])

\* C7: the monthly trend has one row per distinct purchase month of the
\* view, in strictly ascending order, with that month's revenue sum and
\* distinct-order count.
C7_MonthlyTrend ==
    Reached("monthly") =>
        /\ {monthly_trend[j].year_month : j \in DOMAIN monthly_trend}
              = {MonthOf(View[i].order_purchase_timestamp) : i \in Dated(View)}
        /\ \A j \in 1..(Len(monthly_trend) - 1) :
              Before(monthly_trend[j].year_month, monthly_trend[j + 1].year_month)
        /\ \A j \in DOMAIN monthly_trend :
              LET rows == InMonth(View, monthly_trend[j].year_month)
              IN  /\ monthly_trend[j].total_revenue = SumOver(View, rows)
                  /\ monthly_trend[j].order_count
                        = Cardinality({View[i].order_id : i \in rows})

C7_Witness ==
    /\ pc = "done"
    /\ Len(monthly_trend) >= 3
    /\ Dated(View) # DOMAIN View
    /\ \E j \in DOMAIN monthly_trend : monthly_trend[j].year_month[2] = 12
    /\ \E j \in DOMAIN monthly_trend :
          monthly_trend[j].order_count < Cardinality(InMonth(View, monthly_trend[j].year_month))

\* C8: total_revenue is the revenue sum of the view, num_orders its number
\* of distinct order ids, units_sold its number of rows (also rows whose
\* order_item_id was missing in the input); so num_orders <= units_sold,
\* and one row of revenue 100 gives 1 order, 1 unit and an average of 100.
C8_KPIs ==
    Reached("kpi") =>
        /\ total_revenue = SumOver(View, DOMAIN View)
        /\ num_orders = Cardinality({View[j].order_id : j \in DOMAIN View})
        /\ units_sold = Len(View)
        /\ num_orders <= units_sold
        /\ (Len(View) = 1 /\ View[1].total_revenue = 100) =>
              /\ num_orders = 1
              /\ units_sold = 1
              /\ average_order_value = [num |-> 100, den |-> 1]

C8_Witness ==
    /\ Reached("kpi")
    /\ \E j \in DOMAIN View : csv[View[j].index].order_item_id = NaN
    /\ num_orders < units_sold

C8_ScenarioWitness ==
    /\ Reached("kpi")
    /\ Len(View) = 1
    /\ View[1].total_revenue = 100

(* ---- C9 ---- *)
\* what a finished run must show for cleaned table c and selection sel
Shows(c, sel) ==
    LET v == isin_rows(c, sel)
    IN  /\ total_revenue = sum(Column(v, "total_revenue"))
        /\ num_orders = nunique(Column(v, "order_id"))
        /\ average_order_value = AverageOrderValue(total_revenue, num_orders)
        /\ units_sold = count(Column(v, "order_item_id"))
        /\ top_categories_units = TopCategoriesUnits(v)
        /\ top_categories_revenue = TopCategoriesRevenue(v)
        /\ top_states = TopStates(v)
        /\ monthly_trend = MonthlyTrend(AssignYearMonth(v))

C9_State ==
    LET c == preprocess_table(csv)
        sel == IF multiselect.value = <<>>
               THEN unique(Column(c, "order_purchase_year"))
               ELSE multiselect.value[1]
    IN  /\ Reached("sidebar") => years = sel
        /\ (Reached("filter") /\ multiselect.value = <<>>) => Labels(View) = Labels(c)
        /\ pc = "done" => Shows(c, sel)

\* C9: the page shows the default selection (all years, whole cleaned
\* table) until the user selects; a change of the selection is the only
\* transition and restarts the run; what a finished run shows is a
\* function of the input file and the current selection alone.
C9_RerunOnSelection ==
    /\ []C9_State
    /\ [][(multiselect.value' # multiselect.value) => pc' = "load"]_vars
    /\ [][(pc' = "load") => (multiselect.value' # <<>> /\ multiselect.value' # multiselect.value)]_vars

C9_Witness ==
    /\ pc = "done"
    /\ multiselect.value = <<{2018}>>
    /\ View # <<>>
    /\ Len(View) < Len(Cleaned)

\* C10: once preprocessing has finished, no step of the run changes the
\* cleaned table (rows or columns), and it is the same table in every run.
C10_CleanedFrozen ==
    /\ [](Reached("preprocess") => Cleaned = preprocess_table(csv))
    /\ [][(Reached("preprocess") /\ pc' # "load") => heap'[data'] = heap[data]]_vars

C10_Witness ==
    /\ pc = "done"
    /\ Len(View) < Len(Cleaned)
    /\ View # <<>>
    /\ "year_month" \in DOMAIN View[1]
    /\ "year_month" \notin DOMAIN Cleaned[1]

====
